---- MODULE Spec2Model ----
(***************************************************************************)
(* State-machine model of tutorials/qcnn.ipynb: the QCNN circuit           *)
(* (amplitude embedding, three convolution layers of U_SU4 blocks, PauliZ  *)
(* measurement), the mini-batch training loop and the accuracy test.       *)
(*                                                                         *)
(* Real numbers are symbolic.  A parameter value is the record             *)
(* [idx |-> i, ver |-> k]: entry i of the parameter vector after k         *)
(* optimizer updates; the point at which the optimizer evaluates the       *)
(* objective (its look-ahead point) is a function of the current vector    *)
(* and carries the same record.  A circuit evaluation is the tape of       *)
(* operations the quantum function queues, in queueing order.  Python      *)
(* lists and arrays are functions over 0..n-1, so indices are the          *)
(* source's indices.                                                       *)
(***************************************************************************)
EXTENDS Integers, Sequences, FiniteSets, TLC

(* ---------------- program constants ---------------- *)
n_wires == 8
n_params == 45
steps == 100
batch_size == 25
meas_wire == 4

(* ---------------- bounds of the model ---------------- *)
\* number of training examples, len(X_train)
NTrain == 2
\* number of test examples, len(X_test)
NTest == 2
\* fixed-point resolution of a prediction: 0.5 is Half units, 1.0 is 2*Half
Half == 1
\* first iteration whose loss is non-finite in the diverging landscape
DivergeAt == 3

(* ---------------- Python helpers ---------------- *)
PyLen(a) == Cardinality(DOMAIN a)

Min(a, b) == IF a < b THEN a ELSE b

Abs(x) == IF x < 0 THEN -x ELSE x

\* the list [a, b]
Pair(a, b) == (0 :> a) @@ (1 :> b)

\* a[lo:hi] for 0 <= lo <= hi: clipped to the length, re-indexed from 0
PySlice(a, lo, hi) == [k \in 0..(Min(hi, PyLen(a)) - lo - 1) |-> a[lo + k]]

\* range(lo, hi) as a tuple
RECURSIVE RangeSeq(_, _)
RangeSeq(lo, hi) == IF lo >= hi THEN <<>> ELSE <<lo>> \o RangeSeq(lo + 1, hi)

(* ---------------- gates ---------------- *)
Gate(name, wires, args) == [name |-> name, wires |-> wires, args |-> args]

U3(theta, phi, delta, w) == Gate("U3", <<w>>, <<theta, phi, delta>>)
RY(phi, w) == Gate("RY", <<w>>, <<phi>>)
RZ(phi, w) == Gate("RZ", <<w>>, <<phi>>)
CNOT(c, t) == Gate("CNOT", <<c, t>>, <<>>)

data_embedding(X) ==
    << Gate("AmplitudeEmbedding", RangeSeq(0, n_wires), <<X>>) >>

U_SU4_same_direction(params, wires) ==
    << U3(params[0], params[1], params[2], wires[0]),
       U3(params[3], params[4], params[5], wires[1]),
       CNOT(wires[0], wires[1]),
       RY(params[6], wires[0]),
       RZ(params[7], wires[1]),
       CNOT(wires[0], wires[1]),
       RY(params[8], wires[0]),
       CNOT(wires[0], wires[1]),
       U3(params[9], params[10], params[11], wires[0]),
       U3(params[12], params[13], params[14], wires[1]) >>

U_SU4(params, wires) ==
    << U3(params[0], params[1], params[2], wires[0]),
       U3(params[3], params[4], params[5], wires[1]),
       CNOT(wires[0], wires[1]),
       RY(params[6], wires[0]),
       RZ(params[7], wires[1]),
       CNOT(wires[1], wires[0]),
       RY(params[8], wires[0]),
       CNOT(wires[0], wires[1]),
       U3(params[9], params[10], params[11], wires[0]),
       U3(params[12], params[13], params[14], wires[1]) >>

(* ---------------- convolution layers ---------------- *)
\* for i in range(start, stop, 2): U(params, wires=[i, i + 1])
RECURSIVE NeighbourLoop(_, _, _)
NeighbourLoop(params, i, stop) ==
    IF i >= stop THEN <<>>
    ELSE U_SU4(params, Pair(i, i + 1)) \o NeighbourLoop(params, i + 2, stop)

conv_layer1_odd_first(params) ==
    U_SU4(params, Pair(0, 7))
    \o NeighbourLoop(params, 1, 7)
    \o NeighbourLoop(params, 0, 8)

conv_layer1(params) ==
    U_SU4(params, Pair(0, 7))
    \o NeighbourLoop(params, 0, 8)
    \o NeighbourLoop(params, 1, 7)

conv_layer2_touch_pooled(params) ==
    U_SU4(params, Pair(0, 6))
    \o U_SU4(params, Pair(0, 2))
    \o U_SU4(params, Pair(4, 6))
    \o U_SU4(params, Pair(2, 3))

conv_layer2(params) ==
    U_SU4(params, Pair(0, 6))
    \o U_SU4(params, Pair(0, 2))
    \o U_SU4(params, Pair(4, 6))
    \o U_SU4(params, Pair(2, 4))

conv_layer3(params) == U_SU4(params, Pair(0, 4))

QCNN_structure_overlapping_slices(params) ==
    LET param1 == PySlice(params, 0, 15)
        param2 == PySlice(params, 14, 29)
        param3 == PySlice(params, 30, 45)
    IN  conv_layer1(param1) \o conv_layer2(param2) \o conv_layer3(param3)

QCNN_structure_without_pooling(params) ==
    LET param1 == PySlice(params, 0, 15)
        param2 == PySlice(params, 15, 30)
        param3 == PySlice(params, 30, 45)
    IN  conv_layer1(param1) \o conv_layer2(param2) \o conv_layer3(param3)

expval_PauliZ(w) == << Gate("expval(PauliZ)", <<w>>, <<>>) >>

QCNN_layers_reordered(X, params) ==
    data_embedding(X)
    \o LET param1 == PySlice(params, 0, 15)
           param2 == PySlice(params, 15, 30)
           param3 == PySlice(params, 30, 45)
       IN  conv_layer1(param1) \o conv_layer3(param3) \o conv_layer2(param2)
    \o expval_PauliZ(meas_wire)

\* the operations QCNN(X, params) queues, in order
QCNN(X, params) ==
    data_embedding(X)
    \o QCNN_structure_without_pooling(params)
    \o expval_PauliZ(meas_wire)

(* ---------------- data ---------------- *)
\* a feature vector is symbolic: row i of the train or test array
Row(split, i) == [split |-> split, row |-> i]

TrainX == [i \in 0..(NTrain - 1) |-> Row("train", i)]
TestX == [i \in 0..(NTest - 1) |-> Row("test", i)]

\* labels after the class filter: 0 or 1
TrainY == [i \in 0..(NTrain - 1) |-> i % 2]
TestY == [i \in 0..(NTest - 1) |-> i % 2]

\* a label array the class filter would not produce: row 0 carries label 2
UnfilteredTrainY == [i \in 0..(NTrain - 1) |-> IF i = 0 THEN 2 ELSE i % 2]

\* np.random.randn(45): the parameter vector before any update
ParamVec(k) == [i \in 0..(n_params - 1) |-> [idx |-> i, ver |-> k]]

Ver(p) == p[0].ver

\* np.random.randint(low, high, (size,)): index vectors with entries in
\* low..high-1.  The draws enumerated are the constant vectors (b = 0) and
\* the cyclic ones (b = 1), from every starting index a.
RandInt(low, high, size) ==
    { [j \in 0..(size - 1) |-> low + ((a + b * j) % (high - low))] :
        a \in 0..(high - low - 1), b \in 0..1 }

\* a QCNN output in [-1, 1], in units of 1/(2*Half)
Outputs == (-2 * Half)..(2 * Half)

\* the value of a label in the same units
LabelValue(l) == l * 2 * Half

\* how the loss of iteration k compares with the one before it
Landscapes == {"rising", "diverging"}

LossKind(l, k) ==
    CASE l = "rising" -> "higher"
      [] OTHER -> IF k >= DivergeAt THEN "nonfinite" ELSE "lower"

(* ---------------- state ---------------- *)
VARIABLES
    pc,                \* position in the notebook's training and test cells
    it,                \* the loop variable of the training loop
    params,            \* the parameter vector
    X_train, Y_train, X_test, Y_test,
    batch_index, X_batch, Y_batch,
    v,                 \* the argument the optimizer passes to the objective
    cost_predictions,  \* the list cost() is building
    tape,              \* operations queued by the latest QCNN call
    cost_new,          \* the loss returned by step_and_cost
    loss_history,
    predictions,       \* test predictions
    accuracy,
    landscape          \* which loss sequence the objective produces

vars == << pc, it, params, X_train, Y_train, X_test, Y_test, batch_index,
           X_batch, Y_batch, v, cost_predictions, tape, cost_new,
           loss_history, predictions, accuracy, landscape >>

data == << X_train, Y_train, X_test, Y_test >>

PyAppend(a, x) == a @@ (PyLen(a) :> x)

\* zip(a, b): pairs up to the shorter length
Zip(a, b) == [k \in 0..(Min(PyLen(a), PyLen(b)) - 1) |-> <<a[k], b[k]>>]

(* ---------------- training ---------------- *)
\* square_loss: the summed terms (l - p) ** 2 and the divisor len(labels)
square_loss(labels, preds) ==
    [terms |-> Zip(labels, preds), n |-> PyLen(labels)]

\* the prediction of one training example: QCNN(x, params) as a symbolic value
Prediction(x, p) == [x |-> x, ver |-> Ver(p)]

\* for it in range(steps)
LoopContinues_stop_on_nonfinite ==
    /\ it < steps
    /\ \A k \in DOMAIN loss_history : loss_history[k] # "nonfinite"

LoopContinues == it < steps

BatchLabels_shifted(bi) ==
    [j \in DOMAIN bi |-> Y_train[(bi[j] + 1) % PyLen(Y_train)]]

\* [Y_train[i] for i in batch_index]
BatchLabels(bi) == [j \in DOMAIN bi |-> Y_train[bi[j]]]

\* [X_train[i] for i in batch_index]
BatchFeatures(bi) == [j \in DOMAIN bi |-> X_train[bi[j]]]

\* the list comprehension of cost() has visited every x in X
CostListDone_after_first == PyLen(cost_predictions) >= 1

CostListDone == PyLen(cost_predictions) = PyLen(X_batch)

\* the optimizer's update: every entry gets its next value
OptStep(p) == [i \in DOMAIN p |-> [idx |-> p[i].idx, ver |-> p[i].ver + 1]]

\* batch sampling, then step_and_cost calls the objective on the parameters
SampleBatch ==
    /\ pc = "loop"
    /\ LoopContinues
    /\ \E bi \in RandInt(0, PyLen(X_train), batch_size) :
         /\ batch_index' = bi
         /\ X_batch' = BatchFeatures(bi)
         /\ Y_batch' = BatchLabels(bi)
    /\ v' = params
    /\ cost_predictions' = <<>>
    /\ pc' = "cost"
    /\ UNCHANGED << it, params, data, tape, cost_new, loss_history,
                    predictions, accuracy, landscape >>

\* one element of [QCNN(x, params) for x in X]
EvalExample ==
    /\ pc = "cost"
    /\ ~CostListDone
    /\ LET x == X_batch[PyLen(cost_predictions)]
       IN  /\ tape' = QCNN(x, v)
           /\ cost_predictions' = PyAppend(cost_predictions, Prediction(x, v))
    /\ UNCHANGED << pc, it, params, data, batch_index, X_batch, Y_batch, v,
                    cost_new, loss_history, predictions, accuracy, landscape >>

\* cost() returns square_loss(Y, predictions); step_and_cost returns the new
\* parameters and the loss; the loss is appended to loss_history
StepAndCost ==
    /\ pc = "cost"
    /\ CostListDone
    /\ params' = OptStep(params)
    /\ cost_new' = [loss |-> square_loss(Y_batch, cost_predictions),
                    kind |-> LossKind(landscape, it)]
    /\ loss_history' = PyAppend(loss_history, LossKind(landscape, it))
    /\ it' = it + 1
    /\ pc' = "loop"
    /\ UNCHANGED << data, batch_index, X_batch, Y_batch, v, cost_predictions,
                    tape, predictions, accuracy, landscape >>

(* ---------------- accuracy test ---------------- *)
Correct_inclusive(l, p) == Abs(LabelValue(l) - p) <= Half

\* np.abs(l - p) < 0.5
Correct(l, p) == Abs(LabelValue(l) - p) < Half

RECURSIVE CountCorrect(_, _)
CountCorrect(z, k) ==
    IF k >= PyLen(z) THEN 0
    ELSE (IF Correct(z[k][1], z[k][2]) THEN 1 ELSE 0) + CountCorrect(z, k + 1)

\* acc / len(labels), kept as a fraction
accuracy_test(preds, labels) ==
    [num |-> CountCorrect(Zip(labels, preds), 0), den |-> PyLen(labels)]

\* one element of [QCNN(x, params) for x in X_test]
PredictTest ==
    /\ pc = "loop"
    /\ ~LoopContinues
    /\ PyLen(predictions) < PyLen(X_test)
    /\ tape' = QCNN(X_test[PyLen(predictions)], params)
    /\ \E out \in Outputs : predictions' = PyAppend(predictions, out)
    /\ UNCHANGED << pc, it, params, data, batch_index, X_batch, Y_batch, v,
                    cost_predictions, cost_new, loss_history, accuracy,
                    landscape >>

\* accuracy = accuracy_test(predictions, Y_test)
AccuracyTest ==
    /\ pc = "loop"
    /\ ~LoopContinues
    /\ PyLen(predictions) = PyLen(X_test)
    /\ accuracy' = accuracy_test(predictions, Y_test)
    /\ pc' = "accuracy"
    /\ UNCHANGED << it, params, data, batch_index, X_batch, Y_batch, v,
                    cost_predictions, tape, cost_new, loss_history,
                    predictions, landscape >>

\* accuracy = accuracy * 100
ScaleAccuracy ==
    /\ pc = "accuracy"
    /\ accuracy' = [accuracy EXCEPT !.num = accuracy.num * 100]
    /\ pc' = "done"
    /\ UNCHANGED << it, params, data, batch_index, X_batch, Y_batch, v,
                    cost_predictions, tape, cost_new, loss_history,
                    predictions, landscape >>

(* ---------------- specifications ---------------- *)
InitWith(labels) ==
    /\ pc = "loop"
    /\ it = 0
    /\ params = ParamVec(0)
    /\ X_train = TrainX
    /\ Y_train = labels
    /\ X_test = TestX
    /\ Y_test = TestY
    /\ batch_index = <<>>
    /\ X_batch = <<>>
    /\ Y_batch = <<>>
    /\ v = <<>>
    /\ cost_predictions = <<>>
    /\ tape = <<>>
    /\ cost_new = <<>>
    /\ loss_history = <<>>
    /\ predictions = <<>>
    /\ accuracy = <<>>
    /\ landscape \in Landscapes

Init == InitWith(TrainY)

InitUnfiltered == InitWith(UnfilteredTrainY)

Next ==
    \/ SampleBatch
    \/ EvalExample
    \/ StepAndCost
    \/ PredictTest
    \/ AccuracyTest
    \/ ScaleAccuracy

Spec == Init /\ [][Next]_vars

\* The quantum function called on its own.  The parameter vector is the one
\* of any training iteration (versions 0..steps-1) or the trained one
\* (version steps); the feature vector is any train or test row.
InitCircuit ==
    /\ pc = "qnode"
    /\ it = 0
    /\ params \in { ParamVec(k) : k \in 0..steps }
    /\ X_train = TrainX
    /\ Y_train = TrainY
    /\ X_test = TestX
    /\ Y_test = TestY
    /\ batch_index = <<>>
    /\ X_batch = <<>>
    /\ Y_batch = <<>>
    /\ v = <<>>
    /\ cost_predictions = <<>>
    /\ tape = <<>>
    /\ cost_new = <<>>
    /\ loss_history = <<>>
    /\ predictions = <<>>
    /\ accuracy = <<>>
    /\ landscape = "rising"

CallQCNN ==
    /\ pc = "qnode"
    /\ \E x \in { X_train[i] : i \in DOMAIN X_train }
                  \cup { X_test[i] : i \in DOMAIN X_test } :
         tape' = QCNN(x, params)
    /\ pc' = "measured"
    /\ UNCHANGED << it, params, data, batch_index, X_batch, Y_batch, v,
                    cost_predictions, cost_new, loss_history, predictions,
                    accuracy, landscape >>

NextCircuit == CallQCNN

SpecCircuit == InitCircuit /\ [][NextCircuit]_vars

SpecUnfiltered == InitUnfiltered /\ [][Next]_vars

(* ---------------- reading a tape ---------------- *)
GatesPerBlock == 10

\* the operations between the first and the last one
Body(t) == SubSeq(t, 2, Len(t) - 1)

NumBlocks(t) == Len(Body(t)) \div GatesPerBlock

\* the k-th group of ten operations of the body, k = 1, 2, ...
Block(t, k) == SubSeq(Body(t), GatesPerBlock * (k - 1) + 1, GatesPerBlock * k)

\* the targets of a block: the wires of its first two rotations
Targets(b) == << b[1].wires[1], b[2].wires[1] >>

RECURSIVE ArgsFrom(_, _)
ArgsFrom(b, g) == IF g > Len(b) THEN <<>> ELSE b[g].args \o ArgsFrom(b, g + 1)

\* the parameter values a block reads, in reading order
BlockArgs(b) == ArgsFrom(b, 1)

ArgIdx(b) == [a \in DOMAIN BlockArgs(b) |-> BlockArgs(b)[a].idx]

IdxSet(b) == { BlockArgs(b)[a].idx : a \in DOMAIN BlockArgs(b) }

\* the layer whose slice a block reads from: 1, 2 or 3
LayerOf(b) == (BlockArgs(b)[1].idx \div 15) + 1

LayerBlocks(t, L) == { k \in 1..NumBlocks(t) : LayerOf(Block(t, k)) = L }

WiresOf(b) == UNION { { b[g].wires[w] : w \in DOMAIN b[g].wires } : g \in DOMAIN b }

LayerWires(t, L) == UNION { WiresOf(Block(t, k)) : k \in LayerBlocks(t, L) }

\* a tape has been queued by a circuit evaluation
Ran == tape # <<>>

\* the feature vector and the parameter version a tape was queued with
TapeRow(t) == t[1].args[1]

TapeVer(t) == t[2].args[1].ver

(* ---------------- claims ---------------- *)

\* C1: layer 1 applies the block to exactly the eight pairs (0,7), (0,1),
\* (2,3), (4,5), (6,7), (1,2), (3,4), (5,6), in this order, the smaller index
\* first, and to no other pair.
C1_Layer1Pairs ==
    Ran =>
        /\ LayerBlocks(tape, 1) = 1..8
        /\ [k \in 1..8 |-> Targets(Block(tape, k))]
             = << <<0, 7>>, <<0, 1>>, <<2, 3>>, <<4, 5>>, <<6, 7>>,
                  <<1, 2>>, <<3, 4>>, <<5, 6>> >>
        /\ \A k \in LayerBlocks(tape, 1) :
             /\ Targets(Block(tape, k))[1] < Targets(Block(tape, k))[2]
             /\ WiresOf(Block(tape, k))
                  = { Targets(Block(tape, k))[1], Targets(Block(tape, k))[2] }

C1_Witness == Ran /\ TapeRow(tape) = X_train[0] /\ TapeVer(tape) = 0

\* C2: a circuit evaluation queues the embedding first, then the layer-1
\* blocks, then the layer-2 blocks on (0,6), (0,2), (4,6), (2,4), then the
\* layer-3 block on (0,4), and the PauliZ measurement on qubit 4 last, after
\* all 13 blocks; the embedding and the measurement occur nowhere else.
C2_EvaluationOrder ==
    Ran =>
        /\ Len(tape) = 2 + 13 * GatesPerBlock
        /\ tape[1].name = "AmplitudeEmbedding"
        /\ tape[Len(tape)].name = "expval(PauliZ)"
        /\ tape[Len(tape)].wires = <<4>>
        /\ \A g \in DOMAIN Body(tape) :
             Body(tape)[g].name \in {"U3", "RY", "RZ", "CNOT"}
        /\ NumBlocks(tape) = 13
        /\ [k \in 1..13 |-> LayerOf(Block(tape, k))]
             = << 1, 1, 1, 1, 1, 1, 1, 1, 2, 2, 2, 2, 3 >>
        /\ [k \in 1..4 |-> Targets(Block(tape, 8 + k))]
             = << <<0, 6>>, <<0, 2>>, <<4, 6>>, <<2, 4>> >>
        /\ Targets(Block(tape, 13)) = <<0, 4>>

C2_Witness == Ran /\ TapeRow(tape) = X_test[0] /\ TapeVer(tape) = steps

\* C3: every layer-1 block reads exactly parameter indices 0..14, every
\* layer-2 block 15..29 and the layer-3 block 30..44, each index in slice
\* order; the three index sets are disjoint and cover 0..44; this is so in
\* every training iteration and in the test evaluation.
C3_ParameterSlices ==
    Ran =>
        /\ \A k \in 1..NumBlocks(tape) :
             LET lo == IF k <= 8 THEN 0 ELSE IF k <= 12 THEN 15 ELSE 30
             IN  ArgIdx(Block(tape, k)) = RangeSeq(lo, lo + 15)
        /\ UNION { IdxSet(Block(tape, k)) : k \in 1..NumBlocks(tape) } = 0..44
        /\ \A j, k \in 1..NumBlocks(tape) :
             \/ IdxSet(Block(tape, j)) = IdxSet(Block(tape, k))
             \/ IdxSet(Block(tape, j)) \cap IdxSet(Block(tape, k)) = {}

C3_Witness ==
    /\ Ran
    /\ TapeRow(tape) = X_test[PyLen(X_test) - 1]
    /\ TapeVer(tape) = steps
    /\ Ver(params) = steps

\* the ten gates the block is said to emit on targets t0, t1 from slice p
SU4Template(p, t0, t1) ==
    << Gate("U3", <<t0>>, <<p[0], p[1], p[2]>>),
       Gate("U3", <<t1>>, <<p[3], p[4], p[5]>>),
       Gate("CNOT", <<t0, t1>>, <<>>),
       Gate("RY", <<t0>>, <<p[6]>>),
       Gate("RZ", <<t1>>, <<p[7]>>),
       Gate("CNOT", <<t1, t0>>, <<>>),
       Gate("RY", <<t0>>, <<p[8]>>),
       Gate("CNOT", <<t0, t1>>, <<>>),
       Gate("U3", <<t0>>, <<p[9], p[10], p[11]>>),
       Gate("U3", <<t1>>, <<p[12], p[13], p[14]>>) >>

\* C4: on any two distinct targets the block emits the ten gates of the
\* template, reads each of its 15 parameters exactly once, and emits a
\* different sequence when the targets are swapped; every block of a queued
\* tape is the template on its targets.
C4_BlockSequence ==
    Ran =>
        /\ \A k \in 1..NumBlocks(tape) :
             LET b == Block(tape, k)
                 p == PySlice(ParamVec(BlockArgs(b)[1].ver),
                              15 * (LayerOf(b) - 1), 15 * LayerOf(b))
             IN  /\ b = SU4Template(p, Targets(b)[1], Targets(b)[2])
                 /\ b # U_SU4(p, Pair(Targets(b)[2], Targets(b)[1]))
        /\ \A t0, t1 \in 0..(n_wires - 1) :
             t0 # t1 =>
               LET p == PySlice(params, 0, 15)
                   b == U_SU4(p, Pair(t0, t1))
               IN  /\ b = SU4Template(p, t0, t1)
                   /\ Len(BlockArgs(b)) = 15
                   /\ IdxSet(b) = 0..14
                   /\ b # U_SU4(p, Pair(t1, t0))

C4_Witness == Ran /\ TapeRow(tape) = X_train[PyLen(X_train) - 1] /\ TapeVer(tape) = 1

\* C5: the qubits the layers act on are nested, {0..7}, {0,2,4,6}, {0,4};
\* no operation after the last layer-1 block acts on qubit 1, 3, 5 or 7 and
\* none after the last layer-2 block on qubit 2 or 6; between embedding and
\* measurement only block gates are queued; the measured qubit is one the
\* last layer acts on.
C5_PoolingIsTopology ==
    Ran =>
        /\ LayerWires(tape, 1) = 0..7
        /\ LayerWires(tape, 2) = {0, 2, 4, 6}
        /\ LayerWires(tape, 3) = {0, 4}
        /\ \A g \in DOMAIN tape :
             /\ g > 1 + 8 * GatesPerBlock =>
                  {1, 3, 5, 7} \cap { tape[g].wires[w] : w \in DOMAIN tape[g].wires } = {}
             /\ g > 1 + 12 * GatesPerBlock =>
                  {2, 6} \cap { tape[g].wires[w] : w \in DOMAIN tape[g].wires } = {}
        /\ \A k \in 1..NumBlocks(tape) :
             [g \in 1..GatesPerBlock |-> Block(tape, k)[g].name]
               = << "U3", "U3", "CNOT", "RY", "RZ", "CNOT", "RY", "CNOT", "U3", "U3" >>
        /\ Len(Body(tape)) = 13 * GatesPerBlock
        /\ tape[Len(tape)].wires[1] \in LayerWires(tape, 3)

C5_Witness == Ran /\ TapeRow(tape) = X_train[0] /\ TapeVer(tape) = steps - 1

\* the loop is over: the test cell can run or has run
TrainingEnded ==
    \/ ENABLED PredictTest
    \/ ENABLED AccuracyTest
    \/ pc \in {"accuracy", "done"}

\* steps still to take before the notebook is done
Measure ==
    (steps - it) * (batch_size + 2)
    - (IF pc = "cost" THEN 1 + PyLen(cost_predictions) ELSE 0)
    + (PyLen(X_test) - PyLen(predictions))
    + (CASE pc = "done" -> 0 [] pc = "accuracy" -> 1 [] OTHER -> 2)

\* C6: the training loop ends after exactly 100 iterations whatever the
\* losses are (rising or non-finite included): after k iterations the
\* optimizer has stepped k times and the loss log holds k entries, the loop
\* is left only with k = 100, and until the notebook is done a step is
\* always possible and lowers the count of steps that remain.
C6_FixedIterations ==
    /\ [](/\ it \in 0..steps
          /\ PyLen(loss_history) = it
          /\ Ver(params) = it
          /\ TrainingEnded => it = 100 /\ PyLen(loss_history) = 100
          /\ Measure >= 0
          /\ pc # "done" => ENABLED Next)
    /\ [][Measure' < Measure]_vars

C6_Witness ==
    /\ pc = "done"
    /\ PyLen(loss_history) = 100
    /\ \E k \in DOMAIN loss_history : loss_history[k] = "nonfinite"

\* C7: while the examples of a batch are evaluated the parameter vector does
\* not change and every evaluation reads the same values; the vector is
\* replaced once per iteration, and only when the loss of that iteration
\* aggregates one result per example of the batch, all computed from the
\* values the vector held before the replacement.
C7_ParamsReadOnlyInBatch ==
    /\ Ver(params) = it
    /\ pc = "cost" =>
         /\ DOMAIN v = DOMAIN params
         /\ \A i \in DOMAIN v : v[i] = [idx |-> i, ver |-> it]
         /\ PyLen(cost_predictions) <= batch_size
         /\ \A j \in DOMAIN cost_predictions :
              cost_predictions[j] = [x |-> X_batch[j], ver |-> it]
         /\ cost_predictions # <<>> => TapeVer(tape) = Ver(params)
    /\ it > 0 =>
         /\ cost_new.loss.n = batch_size
         /\ PyLen(cost_new.loss.terms) = batch_size
         /\ \A j \in DOMAIN cost_new.loss.terms :
              cost_new.loss.terms[j][2].ver = Ver(params) - 1

C7_Witness ==
    /\ pc = "cost"
    /\ it = 2
    /\ PyLen(cost_predictions) = batch_size

InTestCell == predictions # <<>> \/ pc \in {"accuracy", "done"}

\* C8: accuracy_test returns the number of examples with |label -
\* prediction| < 0.5 over the number of labels, a value in [0, 1]; a
\* prediction exactly 0.5 from its label is not counted; a prediction below
\* -0.5 is counted for neither label; the test cell leaves the trained
\* parameters and the test set as they were.
C8_AccuracyTest ==
    /\ pc = "accuracy" =>
         /\ accuracy.den = PyLen(Y_test)
         /\ accuracy.num =
              Cardinality({ i \in DOMAIN Y_test :
                              Abs(LabelValue(Y_test[i]) - predictions[i]) < Half })
         /\ 0 <= accuracy.num
         /\ accuracy.num <= accuracy.den
         /\ accuracy.den > 0
    /\ \A l \in {0, 1}, p \in Outputs :
         (p < -Half \/ Abs(LabelValue(l) - p) = Half) =>
            accuracy_test((0 :> p), (0 :> l)) = [num |-> 0, den |-> 1]
    /\ InTestCell =>
         /\ params = ParamVec(steps)
         /\ X_test = TestX
         /\ Y_test = TestY

C8_Witness ==
    /\ pc = "accuracy"
    /\ Abs(LabelValue(Y_test[0]) - predictions[0]) = Half
    /\ predictions[1] < -Half
    /\ accuracy.num = 0

C10_BatchPairing ==
    /\ X_train = TrainX
    /\ Y_train = TrainY
    /\ batch_index # <<>> =>
         /\ DOMAIN batch_index = 0..(25 - 1)
         /\ DOMAIN X_batch = DOMAIN batch_index
         /\ DOMAIN Y_batch = DOMAIN batch_index
         /\ \A j \in DOMAIN batch_index :
              /\ batch_index[j] \in 0..(PyLen(X_train) - 1)
              /\ X_batch[j] = X_train[batch_index[j]]
              /\ Y_batch[j] = Y_train[batch_index[j]]

\* an index occurs twice in one batch, and the batch before it held it too
C10_Witness ==
    /\ pc = "cost"
    /\ it > 0
    /\ batch_index[0] = batch_index[1]
    /\ cost_new.loss.terms[0][2].x = X_batch[0]

====
